---------------------------- MODULE Spec2Model ----------------------------
(***************************************************************************)
(* Model of pyfolio/capacity.py: the dollar-volume / capacity analysis     *)
(* (get_assets_dollar_volume, get_portfolio_size_constraints,              *)
(* get_constraining_tickers) and the slippage analysis                     *)
(* (daily_txns_with_bar_data, apply_slippage_penalty).                     *)
(*                                                                         *)
(* Numbers.  A pandas/numpy float is modelled as an exact extended         *)
(* rational [n, d]: d > 0 is the fraction n/d in lowest terms, and d = 0   *)
(* is one of the IEEE specials: n = 1 is +inf, n = -1 is -inf, n = 0 is    *)
(* NaN.  Arithmetic follows IEEE-754 on these values (x/0, 0/0, inf*0,     *)
(* NaN propagation, comparisons with NaN are false, NaN != x is true);     *)
(* binary rounding error and signed zeros are not modelled.                *)
(*                                                                         *)
(* Tables.  A Series is a function from its index labels to floats; a      *)
(* DataFrame with a date index is a sequence of rows (row i is day i),     *)
(* each row a function from column labels to floats.                       *)
(***************************************************************************)
EXTENDS Integers, Sequences, FiniteSets, TLC

---------------------------------------------------------------------------
(* Extended rationals with IEEE semantics                                  *)

RECURSIVE Gcd(_, _)
Gcd(a, b) == IF b = 0 THEN a ELSE Gcd(b, a % b)

IAbs(i) == IF i < 0 THEN -i ELSE i

Sgn(i) == IF i > 0 THEN 1 ELSE IF i < 0 THEN -1 ELSE 0

NaN == [n |-> 0, d |-> 0]

PInf == [n |-> 1, d |-> 0]

NInf == [n |-> -1, d |-> 0]

\* the float n/d (d # 0), in lowest terms with a positive denominator
Q(n, d) ==
    LET g == Gcd(IAbs(n), IAbs(d))
    IN  [n |-> Sgn(d) * (n \div g), d |-> IAbs(d) \div g]

\* the float of an integer
F(i) == [n |-> i, d |-> 1]

IsNaN(x) == x.d = 0 /\ x.n = 0

IsInf(x) == x.d = 0 /\ x.n # 0

IsFinite(x) == x.d > 0

\* the special value with the sign s (s = 0: NaN)
Special(s) == [n |-> s, d |-> 0]

FNeg(x) == [n |-> -x.n, d |-> x.d]

FAbs(x) == [n |-> IAbs(x.n), d |-> x.d]

FAdd(x, y) ==
    IF IsNaN(x) \/ IsNaN(y) THEN NaN
    ELSE IF IsInf(x) /\ IsInf(y) THEN (IF x.n = y.n THEN x ELSE NaN)
    ELSE IF IsInf(x) THEN x
    ELSE IF IsInf(y) THEN y
    ELSE Q(x.n * y.d + y.n * x.d, x.d * y.d)

FSub(x, y) == FAdd(x, FNeg(y))

FMul(x, y) ==
    IF IsNaN(x) \/ IsNaN(y) THEN NaN
    ELSE IF IsInf(x) \/ IsInf(y) THEN Special(Sgn(x.n) * Sgn(y.n))
    ELSE Q(x.n * y.n, x.d * y.d)

\* IEEE division: x/0 is +-inf for x # 0 and NaN for x = 0; inf/inf is NaN
FDiv(x, y) ==
    IF IsNaN(x) \/ IsNaN(y) THEN NaN
    ELSE IF IsInf(x) THEN (IF IsInf(y) THEN NaN
                           ELSE Special(x.n * (IF y.n < 0 THEN -1 ELSE 1)))
    ELSE IF IsInf(y) THEN F(0)
    ELSE IF y.n = 0 THEN Special(Sgn(x.n))
    ELSE Q(x.n * y.d, x.d * y.n)

\* x < y and x <= y; false when either side is NaN
FLt(x, y) ==
    IF IsNaN(x) \/ IsNaN(y) THEN FALSE
    ELSE IF IsInf(x) THEN x.n < 0 /\ y # x
    ELSE IF IsInf(y) THEN y.n > 0
    ELSE x.n * y.d < y.n * x.d

FLe(x, y) == ~IsNaN(x) /\ ~IsNaN(y) /\ (x = y \/ FLt(x, y))

\* floor of n/d (d > 0)
Floor(n, d) == IF n >= 0 THEN n \div d ELSE -((-n + d - 1) \div d)

\* nearest integer to n/d (d > 0), halves to the even neighbour
RoundHalfEven(n, d) ==
    LET f == Floor(n, d)
        r == 2 * (n - f * d)
    IN  IF r < d THEN f
        ELSE IF r > d THEN f + 1
        ELSE IF f % 2 = 0 THEN f ELSE f + 1

\* np.round(x, 2)
Round2(x) == IF ~IsFinite(x) THEN x ELSE Q(RoundHalfEven(x.n * 100, x.d), 100)

---------------------------------------------------------------------------
(* pandas / numpy helpers on Series (sequences of floats)                  *)

\* column `name` of a table given as a sequence of rows
Column(rows, name) == [i \in 1..Len(rows) |-> rows[i][name]]

\* Series.dropna()
DropNa(s) == SelectSeq(s, LAMBDA x : ~IsNaN(x))

\* Series.sum(): NaN entries are skipped
RECURSIVE SumSkipNa(_)
SumSkipNa(s) ==
    IF s = <<>> THEN F(0)
    ELSE FAdd(IF IsNaN(Head(s)) THEN F(0) ELSE Head(s), SumSkipNa(Tail(s)))

\* Series.mean(): the mean of the non-NaN entries, NaN when there is none
Mean(s) ==
    LET v == DropNa(s)
    IN  IF v = <<>> THEN NaN ELSE FDiv(SumSkipNa(v), F(Len(v)))

\* Series.max() / Series.min(): NaN entries are skipped, NaN when none is left
RECURSIVE MaxOf(_)
MaxOf(v) ==
    IF Len(v) = 1 THEN v[1]
    ELSE LET m == MaxOf(Tail(v)) IN IF FLt(m, Head(v)) THEN Head(v) ELSE m

MaxSkipNa(s) == IF DropNa(s) = <<>> THEN NaN ELSE MaxOf(DropNa(s))

RECURSIVE MinOf(_)
MinOf(v) ==
    IF Len(v) = 1 THEN v[1]
    ELSE LET m == MinOf(Tail(v)) IN IF FLt(Head(v), m) THEN Head(v) ELSE m

MinSkipNa(s) == IF DropNa(s) = <<>> THEN NaN ELSE MinOf(DropNa(s))

\* insertion of x into the ascending sequence v
RECURSIVE InsertSorted(_, _)
InsertSorted(x, v) ==
    IF v = <<>> THEN <<x>>
    ELSE IF FLe(x, Head(v)) THEN <<x>> \o v
    ELSE <<Head(v)>> \o InsertSorted(x, Tail(v))

RECURSIVE Sort(_)
Sort(v) == IF v = <<>> THEN <<>> ELSE InsertSorted(Head(v), Sort(Tail(v)))

\* the q-th percentile (q in 0..100) of the ascending sequence v, by numpy's
\* linear interpolation at the fractional rank q/100 * (n - 1)
PercentileOfSorted(v, q) ==
    LET n  == Len(v)
        r  == q * (n - 1)
        lo == r \div 100
        w  == Q(r % 100, 100)
        below == v[lo + 1]
        above == v[IF lo + 2 <= n THEN lo + 2 ELSE n]
    IN  FAdd(below, FMul(w, FSub(above, below)))

\* np.nanpercentile(x, q): NaN entries are ignored, NaN when none is left
NoSortPercentile(x, q) ==
    IF DropNa(x) = <<>> THEN NaN ELSE PercentileOfSorted(DropNa(x), q)

nanpercentile(x, q) ==
    IF DropNa(x) = <<>> THEN NaN ELSE PercentileOfSorted(Sort(DropNa(x)), q)

\* Python's s[-n:] (DataFrame.iloc[-n:]) for n >= 0: -0 is 0, so n = 0
\* selects the slice from position 0, which is every row
iloc_tail(s, n) ==
    IF n = 0 \/ n >= Len(s) THEN s ELSE SubSeq(s, Len(s) - n + 1, Len(s))

---------------------------------------------------------------------------
(* get_assets_dollar_volume                                                *)

DISPLAY_UNIT == 1000000

\* DataFrame.sum(axis='columns') of one row: NaN entries are skipped
RECURSIVE RowSum(_, _)
RowSum(row, cols) ==
    IF cols = {} THEN F(0)
    ELSE LET c == CHOOSE k \in cols : TRUE
         IN  FAdd(IF IsNaN(row[c]) THEN F(0) ELSE row[c], RowSum(row, cols \ {c}))

\* pos.get_percent_alloc: every position value divided by its row's total
get_percent_alloc(pos) ==
    [i \in 1..Len(pos) |->
        [c \in DOMAIN pos[i] |-> FDiv(pos[i][c], RowSum(pos[i], DOMAIN pos[i]))]]

\* DataFrame.drop(col, axis=1)
drop(rows, col) ==
    [i \in 1..Len(rows) |-> [c \in DOMAIN rows[i] \ {col} |-> rows[i][c]]]

\* market_data['volume'] * market_data['price']
DollarVolume(md) ==
    [i \in 1..Len(md.volume) |->
        [c \in DOMAIN md.volume[i] |-> FMul(md.volume[i][c], md.price[i][c])]]

\* ts != 0 on a float: true for every non-zero value and for NaN
NeZero(x) == IsNaN(x) \/ x # F(0)

\* the loop of lines 46-48: DV[name] = DV.loc[ts[ts != 0].index, name] keeps
\* the dollar volume of the rows selected by ts != 0 and leaves NaN elsewhere
MaskHeld(DV, alloc) ==
    [i \in 1..Len(DV) |->
        [c \in DOMAIN DV[i] |->
            IF c \in DOMAIN alloc[i] /\ ~NeZero(alloc[i][c])
            THEN NaN ELSE DV[i][c]]]

\* lines 50-59: the statistics table, one row per column of positions_alloc
VolStats(names, alloc, DV) ==
    [t \in names |->
        [algo_max_exposure |-> MaxSkipNa([i \in 1..Len(alloc) |-> FAbs(alloc[i][t])]),
         avg_daily_dv_mm   |-> Round2(FDiv(Mean(Column(DV, t)), F(DISPLAY_UNIT))),
         p10_daily_dv_mm   |->
             Round2(FDiv(nanpercentile(Column(DV, t), 10), F(DISPLAY_UNIT))),
         p90_daily_dv_mm   |->
             Round2(FDiv(nanpercentile(Column(DV, t), 90), F(DISPLAY_UNIT)))]]

\* the function's result; last_n_days is <<>> (None) or <<n>> (the integer n)
GetAssetsDollarVolume(pos, md, only_held_days, last_n_days) ==
    LET alloc0 == drop(get_percent_alloc(pos), "cash")
        DV0    == DollarVolume(md)
        alloc  == IF last_n_days # <<>> THEN iloc_tail(alloc0, last_n_days[1])
                  ELSE alloc0
        DV1    == IF last_n_days # <<>> THEN iloc_tail(DV0, last_n_days[1]) ELSE DV0
        DV     == IF only_held_days THEN MaskHeld(DV1, alloc) ELSE DV1
    IN  VolStats(DOMAIN alloc0[1], alloc, DV)

---------------------------------------------------------------------------
(* get_portfolio_size_constraints and get_constraining_tickers            *)

\* the order of the ticker labels in every table's index / columns
Universe == <<"A", "B">>

\* the labels of `labels` in index order
InOrder(labels) == SelectSeq(Universe, LAMBDA t : t \in labels)

CapacityColumns ==
    <<"max_capacity_at_ADTV", "max_capacity_at_10th%", "max_capacity_at_90th%">>

\* the capacities with every non-finite quotient replaced by 0
ZeroFilledConstraints(va, daily_vol_limit) ==
    [t \in DOMAIN va |->
        [c \in {CapacityColumns[k] : k \in 1..Len(CapacityColumns)} |->
            LET dv == IF c = "max_capacity_at_ADTV" THEN va[t].avg_daily_dv_mm
                      ELSE IF c = "max_capacity_at_10th%" THEN va[t].p10_daily_dv_mm
                      ELSE va[t].p90_daily_dv_mm
                q  == FDiv(FMul(dv, daily_vol_limit), va[t].algo_max_exposure)
            IN  IF IsFinite(q) THEN Round2(q) ELSE F(0)]]

\* lines 83-96; constraints.sort(...) returns a sorted copy that is discarded
GetPortfolioSizeConstraints(va, daily_vol_limit) ==
    [t \in DOMAIN va |->
        [c \in {CapacityColumns[k] : k \in 1..Len(CapacityColumns)} |->
            LET dv == IF c = "max_capacity_at_ADTV" THEN va[t].avg_daily_dv_mm
                      ELSE IF c = "max_capacity_at_10th%" THEN va[t].p10_daily_dv_mm
                      ELSE va[t].p90_daily_dv_mm
            IN  Round2(FDiv(FMul(dv, daily_vol_limit), va[t].algo_max_exposure))]]

\* DataFrame.dropna(axis=0): the rows that hold no NaN in any column
KeepAllRows(cons) == DOMAIN cons

dropna(cons) ==
    {t \in DOMAIN cons : \A c \in DOMAIN cons[t] : ~IsNaN(cons[t][c])}

\* Series.min() of column c over the rows `kept` (NaN for no rows)
ColumnMin(cons, kept, c) ==
    MinSkipNa([k \in 1..Len(InOrder(kept)) |-> cons[InOrder(kept)[k]][c]])

\* Series.argmin() of column c over the non-empty rows `kept`: the first label
\* holding the minimum; when no value of the column is finite the label is
\* that or NaN, depending on the pandas version
ArgMin(cons, kept, c) ==
    LET ord   == InOrder(kept)
        m     == ColumnMin(cons, kept, c)
        first == ord[CHOOSE k \in 1..Len(ord) :
                        /\ cons[ord[k]][c] = m
                        /\ \A j \in 1..(k - 1) : cons[ord[j]][c] # m]
    IN  IF IsFinite(m) THEN {first} ELSE {first, "nan"}

---------------------------------------------------------------------------
(* daily_txns_with_bar_data                                                *)

\* a trade's timestamp is <<date, time of day>>; pd.TimeGrouper('D') puts it
\* in the bin of its calendar day
Day(ts) == ts[1]

\* the signed sum, as sum() without the abs() of line 146 would give
RECURSIVE GroupSumSigned(_)
GroupSumSigned(rows) ==
    IF rows = <<>> THEN <<>>
    ELSE LET acc == GroupSumSigned(SubSeq(rows, 1, Len(rows) - 1))
             r   == rows[Len(rows)]
             key == <<r.symbol, Day(r.ts)>>
         IN  IF key \in DOMAIN acc
             THEN [acc EXCEPT ![key] = FAdd(@, r.amount)]
             ELSE acc @@ (key :> r.amount)

\* lines 145-147: assign(amount=abs(amount)).groupby(['symbol', day]).sum():
\* one entry per observed (symbol, day) key, holding the sum of |amount|
RECURSIVE GroupSumAbs(_)
GroupSumAbs(rows) ==
    IF rows = <<>> THEN <<>>
    ELSE LET acc == GroupSumAbs(SubSeq(rows, 1, Len(rows) - 1))
             r   == rows[Len(rows)]
             key == <<r.symbol, Day(r.ts)>>
         IN  IF key \in DOMAIN acc
             THEN [acc EXCEPT ![key] = FAdd(@, FAbs(r.amount))]
             ELSE acc @@ (key :> FAbs(r.amount))

\* market_data[item].unstack() looked up at (symbol, date): NaN when the
\* market data holds no entry for that ticker and day
BarValue(tbl, symbol, date) ==
    IF date \in 1..Len(tbl) /\ symbol \in DOMAIN tbl[date]
    THEN tbl[date][symbol] ELSE NaN

\* the keys of a grouped result in index order: by symbol, then by date
RECURSIVE SortKeys(_)
SortKeys(keys) ==
    IF keys = {} THEN <<>>
    ELSE LET rank(k) == CHOOSE i \in 1..Len(Universe) : Universe[i] = k[1]
             first == CHOOSE k \in keys :
                        \A o \in keys :
                            rank(k) < rank(o) \/ (rank(k) = rank(o) /\ k[2] <= o[2])
         IN  <<first>> \o SortKeys(keys \ {first})

\* lines 145-153: the returned table, one row per grouped key
DailyTxnsWithBarData(rows, md) ==
    LET g    == GroupSumAbs(rows)
        keys == SortKeys(DOMAIN g)
    IN  [k \in 1..Len(keys) |->
            [date   |-> keys[k][2],
             symbol |-> keys[k][1],
             amount |-> g[keys[k]],
             price  |-> BarValue(md.price, keys[k][1], keys[k][2]),
             volume |-> BarValue(md.volume, keys[k][1], keys[k][2])]]

---------------------------------------------------------------------------
(* apply_slippage_penalty                                                  *)

\* timeseries.cum_returns(returns, starting_value): the compounded value
\* series, starting_value * (1 + r_1) * ... * (1 + r_i) on day i
RECURSIVE cum_returns(_, _)
cum_returns(rets, starting_value) ==
    IF rets = <<>> THEN <<>>
    ELSE LET before == cum_returns(SubSeq(rets, 1, Len(rets) - 1), starting_value)
             base   == IF before = <<>> THEN starting_value ELSE before[Len(before)]
         IN  Append(before, FMul(base, FAdd(F(1), rets[Len(rets)])))

\* lines 183-187 for one row of txn_daily, without the abs() of line 183
SignedPenalty(row, mult, impact) ==
    LET shares  == FMul(mult, row.amount)
        dollars == FMul(row.price, shares)
        share   == FDiv(shares, row.volume)
    IN  FMul(FMul(FMul(share, share), impact), dollars)

\* lines 183-187 for one row of txn_daily
Penalty(row, mult, impact) ==
    LET simulate_traded_shares  == FAbs(FMul(mult, row.amount))
        simulate_traded_dollars == FMul(row.price, simulate_traded_shares)
        share == FDiv(simulate_traded_shares, row.volume)
    IN  FMul(FMul(FMul(share, share), impact), simulate_traded_dollars)

\* fillna(0) applied to the resampled penalties, skipped
NoFillna(x) == x

\* Series.fillna(0)
fillna0(x) == IF IsNaN(x) THEN F(0) ELSE x

\* lines 189-190 at one date of returns.index: the sum (NaN skipped) of the
\* day's penalties, NaN for a date without a row, then fillna(0)
DailyPenalty(txn, penalties, date) ==
    LET idx == {k \in 1..Len(txn) : txn[k].date = date}
        day == [k \in 1..Len(txn) |-> IF k \in idx THEN penalties[k] ELSE NaN]
    IN  fillna0(IF idx = {} THEN NaN ELSE SumSkipNa(day))

\* the function's result with its locals; capitals are non-zero integers for
\* the backtest and integers for the simulation
ApplySlippagePenalty(rets, txn, simulate_starting_capital, backtest_starting_capital, impact) ==
    LET mult == FDiv(F(simulate_starting_capital), F(backtest_starting_capital))
        penalties == [k \in 1..Len(txn) |-> Penalty(txn[k], mult, impact)]
        daily_penalty == [i \in 1..Len(rets) |-> DailyPenalty(txn, penalties, i)]
        cum == cum_returns(rets, F(backtest_starting_capital))
        pv  == [i \in 1..Len(rets) |-> FMul(cum[i], mult)]
    IN  [penalties     |-> penalties,
         daily_penalty |-> daily_penalty,
         pv            |-> pv,
         adj_returns   |-> [i \in 1..Len(rets) |->
                               FSub(rets[i], FDiv(daily_penalty[i], pv[i]))]]

---------------------------------------------------------------------------
(* State                                                                   *)

VARIABLES
    positions,           \* input: rows of dollar positions, tickers and "cash"
    market_data,         \* input: [price, volume], rows over the tickers
    transactions,        \* input: [index_name, rows]; a row is one trade
    returns,             \* input: the daily returns, one per day
    txn_daily,           \* result of daily_txns_with_bar_data, or the input
                         \* handed to apply_slippage_penalty
    vol_analysis,        \* result of get_assets_dollar_volume
    constraints,         \* result of get_portfolio_size_constraints
    constraint_tickers,  \* result of get_constraining_tickers
    slippage,            \* result (and locals) of apply_slippage_penalty
    args,                \* the arguments of the calls made so far
    done                 \* the functions that have returned (or raised)

vars == <<positions, market_data, transactions, returns, txn_daily, vol_analysis,
          constraints, constraint_tickers, slippage, args, done>>

inputs == <<positions, market_data, transactions, returns>>

---------------------------------------------------------------------------
(* Bounds and input families                                               *)

\* days of the capacity, transaction and slippage input tables
MaxDays == 2

\* days of the one-ticker dollar-volume tables
MaxDVDays == 11

\* trades of a transactions table, rows of a txn_daily table handed in
MaxTrades == 2

\* daily share volumes of the capacity tables
Volumes == {F(0), F(40000)}

\* the close price of each ticker in the capacity tables
PriceOf(t) == IF t = "A" THEN F(1) ELSE F(2)

\* one day of positions: dollars in A, in B and in cash
PositionRows ==
    {[c \in {"A", "B", "cash"} |->
        IF c = "A" THEN F(r[1]) ELSE IF c = "B" THEN F(r[2]) ELSE F(r[3])] :
     r \in {<<0, 0, 0>>, <<0, 0, 1>>, <<1, 0, 0>>, <<1, 1, 0>>}}

DailyVolLimits == {Q(1, 5)}

\* a ticker's bar data: present, present with no volume, or absent
BarKinds == {"ok", "zero", "absent"}

\* a txn_daily row's bar data: the same, or present with a zero price
RowKinds == BarKinds \cup {"free"}

BarPrice(kind) ==
    IF kind = "absent" THEN NaN ELSE IF kind = "free" THEN F(0) ELSE F(1)

BarVolume(kind) == IF kind = "absent" THEN NaN ELSE IF kind = "zero" THEN F(0) ELSE F(2)

TimesOfDay == {"09:30", "15:59"}

Trades(n) ==
    [ts : (1..n) \X TimesOfDay, symbol : {"A", "B"}, amount : {F(-1), F(1)}]

TxnDailyRows(n) ==
    {[date |-> d, symbol |-> "A", amount |-> a,
      price |-> BarPrice(k), volume |-> BarVolume(k)] :
     d \in 1..n, a \in {F(-1), F(2)}, k \in RowKinds}

ReturnValues == {F(-1), Q(1, 2)}

SimulateCapitals == {0, 2}

BacktestCapitals == {1, 2}

Impacts == {F(0), Q(1, 10)}

SeqsUpTo(S, m) == UNION {[1..k -> S] : k \in 0..m}

NoArgs ==
    [only_held_days |-> TRUE, last_n_days |-> <<>>, daily_vol_limit |-> Q(1, 5),
     simulate_starting_capital |-> 1, backtest_starting_capital |-> 1,
     impact |-> Q(1, 10)]

NoResults ==
    /\ vol_analysis = <<>>
    /\ constraints = <<>>
    /\ constraint_tickers = [raised |-> FALSE, table |-> <<>>]
    /\ slippage = [penalties |-> <<>>, daily_penalty |-> <<>>, pv |-> <<>>,
                   adj_returns |-> <<>>]
    /\ args = NoArgs
    /\ done = {}

NoTransactions == [index_name |-> "None", rows |-> <<>>]

NoMarketData == [price |-> <<>>, volume |-> <<>>]

\* capacity analysis of two tickers over up to MaxDays days
InitCap ==
    /\ \E n \in 1..MaxDays :
        /\ positions \in [1..n -> PositionRows]
        /\ \E vol \in [1..n -> [{"A", "B"} -> Volumes]] :
            market_data = [price  |-> [i \in 1..n |-> [t \in {"A", "B"} |-> PriceOf(t)]],
                           volume |-> vol]
    /\ transactions = NoTransactions
    /\ returns = <<>>
    /\ txn_daily = <<>>
    /\ NoResults

\* dollar-volume statistics of one ticker, held every day, whose volume steps
\* once between a low and a high level, over up to MaxDVDays days
InitDV ==
    /\ \E n \in 1..MaxDVDays, k \in 0..MaxDVDays, up \in BOOLEAN :
        /\ k <= n
        /\ positions = [i \in 1..n |-> [c \in {"A", "cash"} |->
                                           IF c = "A" THEN F(1) ELSE F(0)]]
        /\ market_data =
            [price  |-> [i \in 1..n |-> [t \in {"A"} |-> F(1)]],
             volume |-> [i \in 1..n |-> [t \in {"A"} |->
                            IF (i <= k) = up THEN F(0) ELSE F(110000)]]]
    /\ transactions = NoTransactions
    /\ returns = <<>>
    /\ txn_daily = <<>>
    /\ NoResults

\* a transactions table of up to MaxTrades trades over up to MaxDays days,
\* with bar data of one kind for A and present for B
InitTxn ==
    /\ \E n \in 1..MaxDays :
        /\ \E rows \in SeqsUpTo(Trades(n), MaxTrades) :
            transactions = [index_name |-> "None", rows |-> rows]
        /\ \E kind \in {[t \in {"A", "B"} |-> IF t = "A" THEN k ELSE "ok"] :
                            k \in BarKinds} :
            market_data =
                [price  |-> [i \in 1..n |-> [t \in {"A", "B"} |-> BarPrice(kind[t])]],
                 volume |-> [i \in 1..n |-> [t \in {"A", "B"} |-> BarVolume(kind[t])]]]
        /\ returns = [i \in 1..n |-> F(0)]
    /\ positions = <<>>
    /\ txn_daily = <<>>
    /\ NoResults

\* a txn_daily table of up to MaxTrades rows in date order handed to
\* apply_slippage_penalty with a returns series over up to MaxDays days
InitSlip ==
    /\ \E n \in 1..MaxDays :
        /\ txn_daily \in SeqsUpTo(TxnDailyRows(n), MaxTrades)
        /\ \A k \in 1..(Len(txn_daily) - 1) :
                txn_daily[k].date <= txn_daily[k + 1].date
        /\ returns \in [1..n -> ReturnValues]
    /\ positions = <<>>
    /\ market_data = NoMarketData
    /\ transactions = NoTransactions
    /\ NoResults

Init == InitCap \/ InitDV \/ InitTxn \/ InitSlip

---------------------------------------------------------------------------
(* Operations                                                              *)

get_assets_dollar_volume ==
    /\ "get_assets_dollar_volume" \notin done
    /\ positions # <<>>
    /\ \E only_held_days \in BOOLEAN,
          last_n_days \in {<<>>} \cup {<<n>> : n \in 0..Len(positions)} :
        /\ vol_analysis' = GetAssetsDollarVolume(positions, market_data,
                                                 only_held_days, last_n_days)
        /\ args' = [args EXCEPT !.only_held_days = only_held_days,
                                !.last_n_days = last_n_days]
    /\ done' = done \cup {"get_assets_dollar_volume"}
    /\ UNCHANGED <<inputs, txn_daily, constraints, constraint_tickers, slippage>>

get_portfolio_size_constraints ==
    /\ "get_assets_dollar_volume" \in done
    /\ "get_portfolio_size_constraints" \notin done
    /\ \E daily_vol_limit \in DailyVolLimits :
        /\ constraints' = GetPortfolioSizeConstraints(vol_analysis, daily_vol_limit)
        /\ args' = [args EXCEPT !.daily_vol_limit = daily_vol_limit]
    /\ done' = done \cup {"get_portfolio_size_constraints"}
    /\ UNCHANGED <<inputs, txn_daily, vol_analysis, constraint_tickers, slippage>>

\* lines 116-121; on a table without rows the first d.argmin() raises
get_constraining_tickers ==
    /\ "get_portfolio_size_constraints" \in done
    /\ "get_constraining_tickers" \notin done
    /\ LET kept == dropna(constraints)
           cols == {CapacityColumns[k] : k \in 1..Len(CapacityColumns)}
       IN  IF kept = {}
           THEN constraint_tickers' = [raised |-> TRUE, table |-> <<>>]
           ELSE \E ticker \in [cols -> {"A", "B", "nan"}] :
                   /\ \A c \in cols : ticker[c] \in ArgMin(constraints, kept, c)
                   /\ constraint_tickers' =
                        [raised |-> FALSE,
                         table  |-> [c \in cols |->
                            [capacity |-> ColumnMin(constraints, kept, c),
                             ticker   |-> ticker[c]]]]
    /\ done' = done \cup {"get_constraining_tickers"}
    /\ UNCHANGED <<inputs, txn_daily, vol_analysis, constraints, slippage, args>>

\* line 144 renames the index of the caller's table
daily_txns_with_bar_data ==
    /\ "daily_txns_with_bar_data" \notin done
    /\ market_data # NoMarketData
    /\ txn_daily = <<>>
    /\ transactions' = [transactions EXCEPT !.index_name = "date"]
    /\ txn_daily' = DailyTxnsWithBarData(transactions.rows, market_data)
    /\ done' = done \cup {"daily_txns_with_bar_data"}
    /\ UNCHANGED <<positions, market_data, returns, vol_analysis, constraints,
                   constraint_tickers, slippage, args>>

apply_slippage_penalty ==
    /\ "apply_slippage_penalty" \notin done
    /\ returns # <<>>
    /\ "daily_txns_with_bar_data" \in done \/ market_data = NoMarketData
    /\ \E simulate_starting_capital \in SimulateCapitals,
          backtest_starting_capital \in BacktestCapitals,
          impact \in Impacts :
        /\ slippage' = ApplySlippagePenalty(returns, txn_daily,
                            simulate_starting_capital, backtest_starting_capital,
                            impact)
        /\ args' = [args EXCEPT
                        !.simulate_starting_capital = simulate_starting_capital,
                        !.backtest_starting_capital = backtest_starting_capital,
                        !.impact = impact]
    /\ done' = done \cup {"apply_slippage_penalty"}
    /\ UNCHANGED <<inputs, txn_daily, vol_analysis, constraints, constraint_tickers>>

NextCap ==
    \/ get_assets_dollar_volume
    \/ get_portfolio_size_constraints
    \/ get_constraining_tickers

NextTxn ==
    \/ daily_txns_with_bar_data
    \/ apply_slippage_penalty

Next ==
    \/ NextCap
    \/ NextTxn

SpecCap == InitCap /\ [][NextCap]_vars

SpecDV == InitDV /\ [][NextCap]_vars

SpecTxn == InitTxn /\ [][NextTxn]_vars

SpecSlip == InitSlip /\ [][apply_slippage_penalty]_vars

Spec == Init /\ [][Next]_vars

---------------------------------------------------------------------------
(* Properties                                                              *)

Called(f) == f \in done

\* the dates of returns.index
Dates == 1..Len(returns)

\* the rows of txn_daily on a date
RowsOn(date) == {k \in 1..Len(txn_daily) : txn_daily[k].date = date}

\* C1 as stated: after apply_slippage_penalty, on every date of the returns
\* index without a trade row the adjusted return equals the raw return, for
\* every returns series and every txn_daily table.
C1_NoTradeDayKeepsReturn ==
    Called("apply_slippage_penalty") =>
        \A i \in Dates :
            RowsOn(i) = {} => slippage.adj_returns[i] = returns[i]

\* the scaled portfolio value of a date is non-zero: the simulated capital is
\* not 0 and no return up to that date is -100%
HasValue(i) ==
    /\ args.simulate_starting_capital # 0
    /\ \A j \in 1..i : returns[j] # F(-1)

\* C1 amended: on every date without a trade row the adjusted return equals
\* the raw return when the scaled portfolio value of that date is non-zero
\* (simulated capital not 0, no return of -100% up to that date), and is NaN
\* (0/0) otherwise.
C1_NoTradeDayKeepsReturnIfValued ==
    Called("apply_slippage_penalty") =>
        \A i \in Dates :
            RowsOn(i) = {} =>
                IF HasValue(i) THEN slippage.adj_returns[i] = returns[i]
                ELSE IsNaN(slippage.adj_returns[i])

\* a date without trades keeps its return while another date pays a penalty
C1_Witness ==
    /\ Called("apply_slippage_penalty")
    /\ \E i, j \in Dates :
        /\ RowsOn(i) = {} /\ HasValue(i)
        /\ slippage.adj_returns[i] = returns[i]
        /\ RowsOn(j) # {}
        /\ FLt(F(0), slippage.daily_penalty[j])
        /\ FLt(slippage.adj_returns[j], returns[j])

\* a row with non-zero volume, non-negative price and a finite amount
ValidRow(k) ==
    /\ IsFinite(txn_daily[k].volume) /\ txn_daily[k].volume # F(0)
    /\ FLe(F(0), txn_daily[k].price) /\ IsFinite(txn_daily[k].price)
    /\ IsFinite(txn_daily[k].amount)

\* C2: for every trade row with non-zero volume and non-negative price, with
\* non-negative impact, any sign of the amount and any capital scale, the
\* row's penalty is >= 0, and so is the summed penalty of every day whose
\* rows are all such rows.
C2_PenaltyNonNegative ==
    Called("apply_slippage_penalty") /\ FLe(F(0), args.impact) =>
        /\ \A k \in 1..Len(txn_daily) :
            ValidRow(k) => FLe(F(0), slippage.penalties[k])
        /\ \A i \in Dates :
            (\A k \in RowsOn(i) : ValidRow(k)) => FLe(F(0), slippage.daily_penalty[i])

\* a sell (negative amount) scaled by a capital ratio other than 1 pays a
\* strictly positive penalty
C2_Witness ==
    /\ Called("apply_slippage_penalty")
    /\ args.simulate_starting_capital # args.backtest_starting_capital
    /\ \E k \in 1..Len(txn_daily) :
        /\ ValidRow(k)
        /\ FLt(txn_daily[k].amount, F(0))
        /\ FLt(F(0), slippage.penalties[k])
        /\ FLt(F(0), slippage.daily_penalty[txn_daily[k].date])

\* the trades of a symbol on a calendar day
TradesOn(symbol, date) ==
    {k \in 1..Len(transactions.rows) :
        /\ transactions.rows[k].symbol = symbol
        /\ transactions.rows[k].ts[1] = date}

\* the sum of |amount| over a set of trades
RECURSIVE AbsTotal(_)
AbsTotal(ks) ==
    IF ks = {} THEN F(0)
    ELSE LET k == CHOOSE x \in ks : TRUE
         IN  FAdd(FAbs(transactions.rows[k].amount), AbsTotal(ks \ {k}))

\* C3: the output of daily_txns_with_bar_data has exactly one row for every
\* (symbol, calendar day) with at least one trade, no row for any other pair,
\* and the row's amount is the sum of the absolute amounts of that symbol's
\* trades of that day.
C3_OneRowPerSymbolDay ==
    Called("daily_txns_with_bar_data") =>
        /\ \A s \in {"A", "B"}, d \in 1..MaxDays :
            Cardinality({k \in 1..Len(txn_daily) :
                            txn_daily[k].symbol = s /\ txn_daily[k].date = d})
                = IF TradesOn(s, d) # {} THEN 1 ELSE 0
        /\ \A k \in 1..Len(txn_daily) :
            /\ TradesOn(txn_daily[k].symbol, txn_daily[k].date) # {}
            /\ txn_daily[k].amount
                = AbsTotal(TradesOn(txn_daily[k].symbol, txn_daily[k].date))

\* a buy and a sell of one symbol at two times of one day make one row of 2
C3_Witness ==
    /\ Called("daily_txns_with_bar_data")
    /\ \E i, j \in 1..Len(transactions.rows) :
        /\ transactions.rows[i].symbol = transactions.rows[j].symbol
        /\ transactions.rows[i].ts[1] = transactions.rows[j].ts[1]
        /\ transactions.rows[i].ts[2] # transactions.rows[j].ts[2]
        /\ transactions.rows[i].amount = F(1)
        /\ transactions.rows[j].amount = F(-1)
        /\ \E k \in 1..Len(txn_daily) :
            /\ txn_daily[k].symbol = transactions.rows[i].symbol
            /\ txn_daily[k].date = transactions.rows[i].ts[1]
            /\ txn_daily[k].amount = F(2)

ColumnSet == {CapacityColumns[k] : k \in 1..Len(CapacityColumns)}

\* v is the least value of column c over the tickers ts, and ts is not empty
IsMinOver(v, c, ts) ==
    /\ \E t \in ts : constraints[t][c] = v
    /\ \A t \in ts : FLe(v, constraints[t][c])

FullyDefined ==
    {t \in DOMAIN constraints : \A c \in ColumnSet : ~IsNaN(constraints[t][c])}

C5_ZeroExposureUndefined ==
    Called("get_portfolio_size_constraints") =>
        \A t \in DOMAIN vol_analysis :
            vol_analysis[t].algo_max_exposure = F(0) =>
                \A c \in ColumnSet : ~IsFinite(constraints[t][c])

\* a never-held ticker with positive mean and zero 10th-percentile dollar
\* volume: infinite capacity at ADTV, NaN capacity at the 10th percentile
C5_Witness ==
    /\ Called("get_portfolio_size_constraints")
    /\ \E t \in DOMAIN vol_analysis :
        /\ vol_analysis[t].algo_max_exposure = F(0)
        /\ FLt(F(0), vol_analysis[t].avg_daily_dv_mm)
        /\ vol_analysis[t].p10_daily_dv_mm = F(0)
        /\ constraints[t]["max_capacity_at_ADTV"] = PInf
        /\ IsNaN(constraints[t]["max_capacity_at_10th%"])

\* the dollar volumes of ticker t over all days of market_data
DollarVolumes(t) == Column(DollarVolume(market_data), t)

\* C6 as stated: for every ticker whose daily dollar volumes are not all
\* equal the reported 10th percentile is <= the reported mean, and the mean
\* is <= the reported 90th percentile.
C6_MeanBetweenPercentiles ==
    Called("get_assets_dollar_volume") =>
        \A t \in DOMAIN vol_analysis :
            /\ \E i, j \in 1..Len(DollarVolumes(t)) :
                    DollarVolumes(t)[i] # DollarVolumes(t)[j]
            /\ ~IsNaN(vol_analysis[t].avg_daily_dv_mm)
            => /\ FLe(vol_analysis[t].p10_daily_dv_mm, vol_analysis[t].avg_daily_dv_mm)
               /\ FLe(vol_analysis[t].avg_daily_dv_mm, vol_analysis[t].p90_daily_dv_mm)

\* C6 amended: for every ticker with defined statistics the reported 10th
\* percentile is <= the reported 90th percentile; the mean need not lie
\* between them.
C6_PercentilesOrdered ==
    Called("get_assets_dollar_volume") =>
        \A t \in DOMAIN vol_analysis :
            ~IsNaN(vol_analysis[t].avg_daily_dv_mm) =>
                FLe(vol_analysis[t].p10_daily_dv_mm, vol_analysis[t].p90_daily_dv_mm)

\* a ticker whose volume is not constant, with the percentiles strictly
\* apart and the reported mean strictly above the 90th percentile
C6_Witness ==
    /\ Called("get_assets_dollar_volume")
    /\ \E t \in DOMAIN vol_analysis :
        /\ \E i, j \in 1..Len(DollarVolumes(t)) :
                DollarVolumes(t)[i] # DollarVolumes(t)[j]
        /\ FLt(vol_analysis[t].p90_daily_dv_mm, vol_analysis[t].avg_daily_dv_mm)
        /\ FLe(vol_analysis[t].p10_daily_dv_mm, vol_analysis[t].p90_daily_dv_mm)

\* C7: no function modifies any of its input tables (values, index, columns,
\* index and column names): every step leaves every input table as it was.
C7_InputsUnchanged == [][inputs' = inputs]_vars

\* C8: when a trade-day row of txn_daily has volume zero, or NaN price or
\* volume (no market data for that ticker and day), the adjusted return of
\* that calendar day is infinite or NaN, never a finite number.  Stated for
\* calls with positive impact and positive simulated capital, where a traded
\* row's penalty is not zero by its parameters.
C8_UndefinedPropagates ==
    /\ Called("apply_slippage_penalty")
    /\ FLt(F(0), args.impact)
    /\ args.simulate_starting_capital > 0
    =>
        \A k \in 1..Len(txn_daily) :
            (\/ txn_daily[k].volume = F(0)
             \/ IsNaN(txn_daily[k].volume)
             \/ IsNaN(txn_daily[k].price))
            => (txn_daily[k].date \in Dates
                    => ~IsFinite(slippage.adj_returns[txn_daily[k].date]))

\* the dollar volume kept only on the days a ticker's allocation is defined
\* and non-zero
MaskHeldDefined(DV, alloc) ==
    [i \in 1..Len(DV) |->
        [c \in DOMAIN DV[i] |->
            IF c \in DOMAIN alloc[i] /\ (IsNaN(alloc[i][c]) \/ alloc[i][c] = F(0))
            THEN NaN ELSE DV[i][c]]]

\* the rows the call works on: all of them, or the tail picked by last_n_days
RowsUsed(rows) ==
    IF args.last_n_days = <<>> THEN rows ELSE iloc_tail(rows, args.last_n_days[1])

\* C9: with only_held_days=True every ticker's mean and percentiles are those
\* of its dollar volume on exactly the days on which its allocation is
\* defined and non-zero.
C9_OnlyHeldDays ==
    Called("get_assets_dollar_volume") /\ args.only_held_days =>
        LET alloc == RowsUsed(drop(get_percent_alloc(positions), "cash"))
            DV    == MaskHeldDefined(RowsUsed(DollarVolume(market_data)), alloc)
        IN  vol_analysis = VolStats(DOMAIN vol_analysis, alloc, DV)

\* the last n rows of a table, all of them when it has fewer than n
LastRows(rows, n) ==
    IF n >= Len(rows) THEN rows ELSE SubSeq(rows, Len(rows) - n + 1, Len(rows))

\* C10: with last_n_days = N, for every N >= 0, algo_max_exposure and the
\* dollar-volume statistics of every ticker are computed from only the last
\* N rows of the allocation and dollar-volume tables (all rows when fewer
\* than N exist).
C10_LastNDays ==
    Called("get_assets_dollar_volume") /\ args.last_n_days # <<>> =>
        LET n     == args.last_n_days[1]
            alloc == LastRows(drop(get_percent_alloc(positions), "cash"), n)
            DV0   == LastRows(DollarVolume(market_data), n)
            DV    == IF args.only_held_days THEN MaskHeld(DV0, alloc) ELSE DV0
        IN  vol_analysis = VolStats(DOMAIN vol_analysis, alloc, DV)

===========================================================================
